---------------------------- MODULE Spec2Model ----------------------------
(***************************************************************************)
(* Model of the Oracle SQL engine of src/src/lib.rs: the State struct      *)
(* (conn, params), the evidence vector the handlers push to, and the seven *)
(* instruction handlers registered on ENGINE.                              *)
(*                                                                         *)
(* A string is a sequence of one-character strings, so that split, trim    *)
(* and to_ascii_lowercase are computed character by character.             *)
(* Option<T> is a sequence of length 0 (None) or 1 (Some).                 *)
(* The Oracle driver is opaque: the outcome of each driver call is an      *)
(* input of the step.                                                      *)
(***************************************************************************)
EXTENDS Integers, Sequences, FiniteSets, TLC

VARIABLES
    conn,      \* State.conn: Option<Connection>
    params,    \* State.params: Vec<SqlValue>
    evidence,  \* the evidence vector handed to the handlers
    last,      \* the latest instruction call: its inputs, where it returned, its result
    added,     \* observer: the add-parameter inputs since the queue was last drained
    ran,       \* observer: the queries the driver executed successfully, in order
    poisoned,  \* whether the Mutex<State> handed to the handlers is poisoned
    holder,    \* ENGINE: Option of the thread that holds its lock
    frame      \* per thread: the instruction call it is running and where it is

vars == <<conn, params, evidence, last, added, ran, poisoned, holder, frame>>

(***************************************************************************)
(* Bounds of the model.                                                    *)
(***************************************************************************)
MaxParams == 3
MaxEvidence == 2
MaxTokens == 3

(***************************************************************************)
(* Inputs.                                                                 *)
(***************************************************************************)
SelectOne == <<"S","E","L","E","C","T"," ","1">>
DeleteFromT == <<"D","E","L","E","T","E"," ","F","R","O","M"," ","t">>
DropSemi == <<"d","r","o","p",";">>
Queries == {SelectOne, DeleteFromT}

(***************************************************************************)
(* Queries for the danger guard alone: up to MaxTokens tokens joined by    *)
(* single spaces, and up to MaxTokens words joined by a space, a tab or a  *)
(* newline. Each token and word comes with the verdict the guard's rule    *)
(* gives it, written down by hand.                                         *)
(***************************************************************************)
GuardTokens ==
    { [text |-> <<"D","R","O","P">>, danger |-> TRUE],
      [text |-> <<"\t","d","e","l","e","t","e">>, danger |-> TRUE],
      [text |-> DropSemi, danger |-> FALSE],
      [text |-> <<"a","i","r","d","r","o","p">>, danger |-> FALSE],
      [text |-> <<>>, danger |-> FALSE] }

GuardWords ==
    { [text |-> <<"D","R","O","P">>, danger |-> TRUE],
      [text |-> <<"s","e","l","e","c","t">>, danger |-> FALSE] }

Separators == {" ", "\t", "\n"}

\* the sequences of 1..n elements of S
SeqsUpTo(S, n) == UNION { [1..k -> S] : k \in 1..n }

\* pieces[1] seps[1] pieces[2] ... seps[n-1] pieces[n]
RECURSIVE Joined(_, _)
Joined(pieces, seps) ==
    IF Len(pieces) = 1 THEN pieces[1].text
    ELSE pieces[1].text \o <<seps[1]>> \o Joined(Tail(pieces), Tail(seps))

\* queries of tokens joined by single spaces; danger: some token is denylisted
TokenCases ==
    { [query |-> Joined(toks, [i \in 1..(Len(toks) - 1) |-> " "]),
       danger |-> \E i \in 1..Len(toks) : toks[i].danger] :
      toks \in SeqsUpTo(GuardTokens, MaxTokens) }

\* queries of words joined by any whitespace. anyWord: some word is
\* denylisted; spaceToken: some denylisted word has a space, or an end of
\* the query, on both of its sides
WordCases ==
    UNION { { [query |-> Joined(ws, seps),
               anyWord |-> \E i \in 1..Len(ws) : ws[i].danger,
               spaceToken |-> \E i \in 1..Len(ws) :
                                 /\ ws[i].danger
                                 /\ (i = 1 \/ seps[i - 1] = " ")
                                 /\ (i = Len(ws) \/ seps[i] = " ")] :
              seps \in [1..(Len(ws) - 1) -> Separators] } :
            ws \in SeqsUpTo(GuardWords, MaxTokens) }

\* the examples of the guard's description
DropTableT == <<"D","R","O","P"," ","t","a","b","l","e"," ","t">>
SelectStarFromT == <<"S","E","L","E","C","T"," ","*"," ","F","R","O","M"," ","t">>
AirdropNow == <<"a","i","r","d","r","o","p"," ","n","o","w">>
ExampleCases ==
    { [query |-> DropTableT, danger |-> TRUE],
      [query |-> SelectStarFromT, danger |-> FALSE],
      [query |-> AirdropNow, danger |-> FALSE],
      [query |-> DropSemi, danger |-> FALSE] }

GuardQueries ==
    {c.query : c \in TokenCases} \cup {c.query : c \in WordCases}
        \cup {c.query : c \in ExampleCases}

Usernames == {"scott"}
Passwords == {"tiger"}
ConnectStrings == {"db1", "db2"}

StringInputs == {"a"}
IntegerInputs == {-1}
BooleanInputs == {TRUE}

Columns == {"name", "age"}

Threads == {"t1", "t2"}

\* the connect string of the specifications that call with one
ThreadConnectStrings == {"db1"}

(***************************************************************************)
(* Option<T>.                                                              *)
(***************************************************************************)
None == <<>>
Some(x) == <<x>>

(***************************************************************************)
(* enum SqlValue.                                                          *)
(***************************************************************************)
SqlString(s) == [kind |-> "String", val |-> s]
SqlInteger(i) == [kind |-> "Integer", val |-> i]
SqlBoolean(b) == [kind |-> "Boolean", val |-> b]

(***************************************************************************)
(* `sql_param as i64`: widening an i32 to an i64 sign-extends, which keeps *)
(* the numeric value of every i32.                                         *)
(***************************************************************************)
I32AsI64(i) == i

(***************************************************************************)
(* The danger guard's string functions.                                    *)
(***************************************************************************)
DangerQueries ==
    { <<"t","r","u","n","c","a","t","e">>,
      <<"d","e","l","e","t","e">>,
      <<"d","r","o","p">> }

UpperCase == <<"A","B","C","D","E","F","G","H","I","J","K","L","M",
               "N","O","P","Q","R","S","T","U","V","W","X","Y","Z">>
LowerCase == <<"a","b","c","d","e","f","g","h","i","j","k","l","m",
               "n","o","p","q","r","s","t","u","v","w","x","y","z">>

\* char::to_ascii_lowercase: 'A'..'Z' map to 'a'..'z', every other char is kept
CharToAsciiLowercase(c) ==
    IF \E i \in 1..Len(UpperCase) : UpperCase[i] = c
      THEN LowerCase[CHOOSE i \in 1..Len(UpperCase) : UpperCase[i] = c]
      ELSE c

\* the words compared as they are written
ToAsciiLowercase_CaseSensitive(s) == s

\* str::to_ascii_lowercase
ToAsciiLowercase(s) == [i \in 1..Len(s) |-> CharToAsciiLowercase(s[i])]

\* char::is_whitespace, on the characters the model's strings use
IsWhitespace(c) == c \in {" ", "\t", "\n", "\r"}

\* str::trim: drop leading and trailing whitespace
Trim(s) ==
    LET keep == {i \in 1..Len(s) : ~IsWhitespace(s[i])}
    IN  IF keep = {} THEN <<>>
        ELSE LET lo == CHOOSE i \in keep : \A j \in keep : i <= j
                 hi == CHOOSE i \in keep : \A j \in keep : j <= i
             IN  SubSeq(s, lo, hi)

\* str::split_whitespace-like: a piece ends at any whitespace character
RECURSIVE Split_AnyWhitespace(_, _)
Split_AnyWhitespace(s, sep) ==
    IF \A i \in 1..Len(s) : ~IsWhitespace(s[i]) THEN <<s>>
    ELSE LET k == CHOOSE i \in 1..Len(s) :
                      IsWhitespace(s[i]) /\ \A j \in 1..(i - 1) : ~IsWhitespace(s[j])
         IN  <<SubSeq(s, 1, k - 1)>>
                 \o Split_AnyWhitespace(SubSeq(s, k + 1, Len(s)), sep)

\* str::split(sep): the pieces between the occurrences of sep, empty pieces kept
RECURSIVE Split(_, _)
Split(s, sep) ==
    IF \A i \in 1..Len(s) : s[i] # sep THEN <<s>>
    ELSE LET k == CHOOSE i \in 1..Len(s) :
                      s[i] = sep /\ \A j \in 1..(i - 1) : s[j] # sep
         IN  <<SubSeq(s, 1, k - 1)>> \o Split(SubSeq(s, k + 1, Len(s)), sep)

\* the loop of the guard: some word of the query, trimmed and lower-cased,
\* is one of danger_queries
ContainsDangerWord(query) ==
    LET words == Split(query, " ")
    IN  \E i \in 1..Len(words) : ToAsciiLowercase(Trim(words[i])) \in DangerQueries

\* the loop's verdict on each query the caller may submit
IsDangerous == [query \in Queries \cup GuardQueries |-> ContainsDangerWord(query)]

\* a guard that runs only once a connection exists
GuardRejects_AfterConnCheck(query, danger_allowed) ==
    conn # None /\ ~danger_allowed /\ IsDangerous[query]

\* a guard that runs whatever danger_allowed says
GuardRejects_AllowIgnored(query, danger_allowed) == IsDangerous[query]

\* the guard as the handlers run it: skipped when danger_allowed
GuardRejects(query, danger_allowed) ==
    ~danger_allowed /\ IsDangerous[query]

(***************************************************************************)
(* The Oracle driver, as far as the handlers use it.                       *)
(***************************************************************************)
\* Connection::connect(username, password, connect_string), when it succeeds
Connection(username, password, connect_string) ==
    [username |-> username, password |-> password, connect_string |-> connect_string]

\* the first row of a result: one column and its value
Rows == { [col |-> "name", val |-> SqlString("Bob")],
          [col |-> "name", val |-> SqlInteger(42)] }

\* conn.query_row: an error, or the first row
RowResults == {None} \cup {Some(r) : r \in Rows}

\* row.get::<T>(column): the value, or an error when the row has no such
\* column or its value is not of the kind asked for
RowGet(row, column, kind) ==
    IF row.col = column /\ row.val.kind = kind THEN Some(row.val.val) ELSE None

(***************************************************************************)
(* Steps of the handlers.                                                  *)
(***************************************************************************)
\* state.conn = Connection::connect(..).ok(): a failed connect clears the handle
ConnAfterConnect_Ok(c, result) == result

\* state.conn = Some(Connection::connect(..)?): assigned only when connect is Ok
ConnAfterConnect(c, result) ==
    IF result # None THEN Some(result[1]) ELSE c

\* state.params.insert(0, value)
PushParam_Front(p, value) == <<value>> \o p

\* state.params = vec![value]
PushParam_Reset(p, value) == <<value>>

\* state.params.push(value)
PushParam(p, value) == Append(p, value)

\* state.conn.as_ref().ok_or(NotYetConnected): the error case
ConnMissing(c) == c = None

\* the queue cloned and never cleared
ClearedParams_Kept(p) == p

\* state.params.clear()
ClearedParams(p) == <<>>

\* the loop building sql_params: one &dyn ToSql per queued value, in order
ToSqlRefs(sql_params_vec) ==
    [i \in 1..Len(sql_params_vec) |->
        CASE sql_params_vec[i].kind = "String" ->
                 [ty |-> "&String", val |-> sql_params_vec[i].val]
          [] sql_params_vec[i].kind = "Integer" ->
                 [ty |-> "&i64", val |-> sql_params_vec[i].val]
          [] sql_params_vec[i].kind = "Boolean" ->
                 [ty |-> "&bool", val |-> sql_params_vec[i].val]]

\* the evidence content normalised as the guard normalises its words
EvidenceRecord_Lowercase(query) ==
    [label |-> "Ran Query", content |-> ToAsciiLowercase(query)]

\* Evidence { label: "Ran Query", content: Textual(query.clone()) }
EvidenceRecord(query) == [label |-> "Ran Query", content |-> query]

\* the push placed before the driver's result is looked at
EvidenceAfterQuery_Always(ev, query, query_ok) == Append(ev, EvidenceRecord(query))

\* the evidence of a call replacing the evidence of the calls before it
EvidenceAfterQuery_Fresh(ev, query, query_ok) ==
    IF query_ok THEN <<EvidenceRecord(query)>> ELSE <<>>

\* conn.query(..)?; evidence.push(..): the push is reached only when query is Ok
EvidenceAfterQuery(ev, query, query_ok) ==
    IF query_ok THEN Append(ev, EvidenceRecord(query)) ELSE ev

\* the push placed after output.insert(.., row.get(..)?)
EvidenceAfterQueryRow_AfterGet(ev, query, row, got) ==
    IF got # None THEN Append(ev, EvidenceRecord(query)) ELSE ev

\* let row = conn.query_row(..)?; evidence.push(..); output.insert(.., row.get(..)?):
\* the push is reached as soon as the row is there, whatever row.get returns
EvidenceAfterQueryRow(ev, query, row, got) ==
    IF row # None THEN Append(ev, EvidenceRecord(query)) ELSE ev

(***************************************************************************)
(* The with-result instructions' parameters and output: the kind each is   *)
(* declared with (with_parameter, with_output) and the kind the handler    *)
(* reads it as (value_string, value_bool) or writes it as                  *)
(* (ParameterValue::String, ParameterValue::Integer).                      *)
(***************************************************************************)
DeclaredKinds ==
    [op \in {"oracle-query-with-string-result", "oracle-query-with-integer-result"} |->
        IF op = "oracle-query-with-string-result"
          THEN [query |-> "String", column |-> "String",
                dangerous |-> "Boolean", result |-> "String"]
          ELSE [query |-> "String", column |-> "Integer",
                dangerous |-> "Boolean", result |-> "String"]]

HandlerKinds ==
    [op \in {"oracle-query-with-string-result", "oracle-query-with-integer-result"} |->
        IF op = "oracle-query-with-string-result"
          THEN [query |-> "String", column |-> "String",
                dangerous |-> "Boolean", result |-> "String"]
          ELSE [query |-> "String", column |-> "String",
                dangerous |-> "Boolean", result |-> "Integer"]]

(***************************************************************************)
(* The record of an instruction call: the instruction, its inputs, the     *)
(* place where the handler returned, its result, whether it called the     *)
(* driver and with which bindings, and the "result" entry of its output.   *)
(* The closures take (state, params, output, evidence): the caller's       *)
(* simulate flag is no parameter of theirs, so it is recorded and read by  *)
(* no handler.                                                             *)
(***************************************************************************)
Call(op, simulate, query, danger_allowed, err, stage, sent, binds, out) ==
    [op |-> op, simulate |-> simulate, connect_string |-> "", query |-> query,
     danger_allowed |-> danger_allowed, err |-> err, stage |-> stage,
     sent |-> sent, binds |-> binds, out |-> out]

NoCall == Call("none", FALSE, <<>>, FALSE, "Ok", "none", FALSE, <<>>, None)

\* the frame of a thread that runs no instruction
Idle ==
    [pc |-> "idle", op |-> "none", query |-> <<>>, arg |-> None,
     connect_string |-> "", sql_params_vec |-> <<>>, query_ok |-> FALSE,
     err |-> "Ok", stage |-> "none", sent |-> FALSE]

Init ==
    /\ conn = None
    /\ params = <<>>
    /\ evidence = <<>>
    /\ last = NoCall
    /\ added = <<>>
    /\ ran = <<>>
    /\ poisoned = FALSE
    /\ holder = None
    /\ frame = [t \in Threads |-> Idle]

\* the poisoning taken over: state.get_mut().unwrap_or_else(|e| e.into_inner())
LockFailed_Recovered(p) == FALSE

\* state.get_mut(): Err when the mutex is poisoned
LockFailed(p) == p

\* .map_err(|_| EngineError::PoisonedState)?: the handler returns before it
\* reads a parameter
PoisonedReturn(op, simulate) ==
    /\ last' = Call(op, simulate, <<>>, FALSE, "PoisonedState", "lock",
                    FALSE, <<>>, None)
    /\ UNCHANGED <<conn, params, evidence, added, ran, poisoned, holder, frame>>

(***************************************************************************)
(* oracle-connect                                                          *)
(***************************************************************************)
OracleConnect(simulate, username, password, connect_string, connect_ok) ==
    IF LockFailed(poisoned) THEN PoisonedReturn("oracle-connect", simulate) ELSE
    LET result == IF connect_ok
                    THEN Some(Connection(username, password, connect_string))
                    ELSE None
    IN  /\ conn' = ConnAfterConnect(conn, result)
        /\ last' = [Call("oracle-connect", simulate, <<>>, FALSE,
                         IF result # None THEN "Ok" ELSE "Oracle",
                         IF result # None THEN "done" ELSE "driver",
                         TRUE, <<>>, None)
                      EXCEPT !.connect_string = connect_string]
        /\ UNCHANGED <<params, evidence, added, ran, poisoned, holder, frame>>

(***************************************************************************)
(* oracle-query-add-parameter-string / -integer / -boolean                 *)
(***************************************************************************)
OracleQueryAddParameterString(simulate, sql_param) ==
    IF LockFailed(poisoned) THEN PoisonedReturn("oracle-query-add-parameter-string", simulate) ELSE
    /\ UNCHANGED <<poisoned, holder, frame>>
    /\ Len(params) < MaxParams
    /\ params' = PushParam(params, SqlString(sql_param))
    /\ added' = Append(added, [kind |-> "String", val |-> sql_param])
    /\ last' = Call("oracle-query-add-parameter-string", simulate, <<>>, FALSE,
                    "Ok", "done", FALSE, <<>>, None)
    /\ UNCHANGED <<conn, evidence, ran>>

OracleQueryAddParameterInteger(simulate, sql_param) ==
    IF LockFailed(poisoned) THEN PoisonedReturn("oracle-query-add-parameter-integer", simulate) ELSE
    /\ UNCHANGED <<poisoned, holder, frame>>
    /\ Len(params) < MaxParams
    /\ params' = PushParam(params, SqlInteger(I32AsI64(sql_param)))
    /\ added' = Append(added, [kind |-> "Integer", val |-> sql_param])
    /\ last' = Call("oracle-query-add-parameter-integer", simulate, <<>>, FALSE,
                    "Ok", "done", FALSE, <<>>, None)
    /\ UNCHANGED <<conn, evidence, ran>>

OracleQueryAddParameterBoolean(simulate, sql_param) ==
    IF LockFailed(poisoned) THEN PoisonedReturn("oracle-query-add-parameter-boolean", simulate) ELSE
    /\ UNCHANGED <<poisoned, holder, frame>>
    /\ Len(params) < MaxParams
    /\ params' = PushParam(params, SqlBoolean(sql_param))
    /\ added' = Append(added, [kind |-> "Boolean", val |-> sql_param])
    /\ last' = Call("oracle-query-add-parameter-boolean", simulate, <<>>, FALSE,
                    "Ok", "done", FALSE, <<>>, None)
    /\ UNCHANGED <<conn, evidence, ran>>

(***************************************************************************)
(* oracle-query                                                            *)
(***************************************************************************)
\* the handler with the queue drained before the connection is looked up
OracleQuery_DrainFirst(simulate, query, danger_allowed) ==
    IF LockFailed(poisoned) THEN PoisonedReturn("oracle-query", simulate) ELSE
    /\ UNCHANGED <<poisoned, holder, frame>>
    /\ Len(evidence) < MaxEvidence
    /\ IF GuardRejects(query, danger_allowed)
         THEN /\ last' = Call("oracle-query", simulate, query, danger_allowed,
                              "DangerousQuery", "guard", FALSE, <<>>, None)
              /\ UNCHANGED <<conn, params, evidence, added, ran>>
         ELSE IF ConnMissing(conn)
         THEN /\ params' = ClearedParams(params)
              /\ added' = <<>>
              /\ last' = Call("oracle-query", simulate, query, danger_allowed,
                              "NotYetConnected", "conn", FALSE, <<>>, None)
              /\ UNCHANGED <<conn, evidence, ran>>
         ELSE \E query_ok \in BOOLEAN :
                  /\ params' = ClearedParams(params)
                  /\ added' = <<>>
                  /\ evidence' = EvidenceAfterQuery(evidence, query, query_ok)
                  /\ ran' = IF query_ok THEN Append(ran, query) ELSE ran
                  /\ last' = Call("oracle-query", simulate, query, danger_allowed,
                                  IF query_ok THEN "Ok" ELSE "Oracle",
                                  IF query_ok THEN "done" ELSE "driver",
                                  TRUE, ToSqlRefs(params), None)
                  /\ UNCHANGED conn

OracleQuery(simulate, query, danger_allowed) ==
    IF LockFailed(poisoned) THEN PoisonedReturn("oracle-query", simulate) ELSE
    /\ UNCHANGED <<poisoned, holder, frame>>
    /\ Len(evidence) < MaxEvidence
    /\ IF GuardRejects(query, danger_allowed)
         THEN /\ last' = Call("oracle-query", simulate, query, danger_allowed,
                              "DangerousQuery", "guard", FALSE, <<>>, None)
              /\ UNCHANGED <<conn, params, evidence, added, ran>>
         ELSE IF ConnMissing(conn)
         THEN /\ last' = Call("oracle-query", simulate, query, danger_allowed,
                              "NotYetConnected", "conn", FALSE, <<>>, None)
              /\ UNCHANGED <<conn, params, evidence, added, ran>>
         ELSE LET sql_params_vec == params
                  sql_params == ToSqlRefs(sql_params_vec)
              IN  \E query_ok \in BOOLEAN :   \* conn.query(&query, sql_params)
                  /\ params' = ClearedParams(params)
                  /\ added' = <<>>
                  /\ evidence' = EvidenceAfterQuery(evidence, query, query_ok)
                  /\ ran' = IF query_ok THEN Append(ran, query) ELSE ran
                  /\ last' = Call("oracle-query", simulate, query, danger_allowed,
                                  IF query_ok THEN "Ok" ELSE "Oracle",
                                  IF query_ok THEN "done" ELSE "driver",
                                  TRUE, sql_params, None)
                  /\ UNCHANGED conn

(***************************************************************************)
(* oracle-query-with-string-result                                         *)
(***************************************************************************)
OracleQueryWithStringResult(simulate, query, column, danger_allowed) ==
    IF LockFailed(poisoned) THEN PoisonedReturn("oracle-query-with-string-result", simulate) ELSE
    /\ UNCHANGED <<poisoned, holder, frame>>
    /\ Len(evidence) < MaxEvidence
    /\ IF GuardRejects(query, danger_allowed)
         THEN /\ last' = Call("oracle-query-with-string-result", simulate, query,
                              danger_allowed, "DangerousQuery", "guard",
                              FALSE, <<>>, None)
              /\ UNCHANGED <<conn, params, evidence, added, ran>>
         ELSE IF ConnMissing(conn)
         THEN /\ last' = Call("oracle-query-with-string-result", simulate, query,
                              danger_allowed, "NotYetConnected", "conn",
                              FALSE, <<>>, None)
              /\ UNCHANGED <<conn, params, evidence, added, ran>>
         ELSE LET sql_params_vec == params
                  sql_params == ToSqlRefs(sql_params_vec)
              IN  \E row \in RowResults :   \* conn.query_row(&query, sql_params)
                  LET got == IF row # None THEN RowGet(row[1], column, "String") ELSE None
                  IN
                  /\ params' = ClearedParams(params)
                  /\ added' = <<>>
                  /\ evidence' = EvidenceAfterQueryRow(evidence, query, row, got)
                  /\ ran' = IF row # None THEN Append(ran, query) ELSE ran
                  /\ last' = Call("oracle-query-with-string-result", simulate, query,
                                  danger_allowed,
                                  IF got # None THEN "Ok" ELSE "Oracle",
                                  IF row = None THEN "driver"
                                    ELSE IF got = None THEN "get" ELSE "done",
                                  TRUE, sql_params, got)
                  /\ UNCHANGED conn

(***************************************************************************)
(* oracle-query-with-integer-result                                        *)
(***************************************************************************)
OracleQueryWithIntegerResult(simulate, query, column, danger_allowed) ==
    IF LockFailed(poisoned) THEN PoisonedReturn("oracle-query-with-integer-result", simulate) ELSE
    /\ UNCHANGED <<poisoned, holder, frame>>
    /\ Len(evidence) < MaxEvidence
    /\ IF GuardRejects(query, danger_allowed)
         THEN /\ last' = Call("oracle-query-with-integer-result", simulate, query,
                              danger_allowed, "DangerousQuery", "guard",
                              FALSE, <<>>, None)
              /\ UNCHANGED <<conn, params, evidence, added, ran>>
         ELSE IF ConnMissing(conn)
         THEN /\ last' = Call("oracle-query-with-integer-result", simulate, query,
                              danger_allowed, "NotYetConnected", "conn",
                              FALSE, <<>>, None)
              /\ UNCHANGED <<conn, params, evidence, added, ran>>
         ELSE LET sql_params_vec == params
                  sql_params == ToSqlRefs(sql_params_vec)
              IN  \E row \in RowResults :   \* conn.query_row(&query, sql_params)
                  LET got == IF row # None THEN RowGet(row[1], column, "Integer") ELSE None
                  IN
                  /\ params' = ClearedParams(params)
                  /\ added' = <<>>
                  /\ evidence' = EvidenceAfterQueryRow(evidence, query, row, got)
                  /\ ran' = IF row # None THEN Append(ran, query) ELSE ran
                  /\ last' = Call("oracle-query-with-integer-result", simulate, query,
                                  danger_allowed,
                                  IF got # None THEN "Ok" ELSE "Oracle",
                                  IF row = None THEN "driver"
                                    ELSE IF got = None THEN "get" ELSE "done",
                                  TRUE, sql_params, got)
                  /\ UNCHANGED conn

(***************************************************************************)
(* The caller issues one instruction at a time, with any inputs, and the   *)
(* driver answers each call either way.                                    *)
(***************************************************************************)
Next ==
    \/ \E simulate \in BOOLEAN, username \in Usernames, password \in Passwords,
          connect_string \in ConnectStrings, connect_ok \in BOOLEAN :
          OracleConnect(simulate, username, password, connect_string, connect_ok)
    \/ \E simulate \in BOOLEAN, sql_param \in StringInputs :
          OracleQueryAddParameterString(simulate, sql_param)
    \/ \E simulate \in BOOLEAN, sql_param \in IntegerInputs :
          OracleQueryAddParameterInteger(simulate, sql_param)
    \/ \E simulate \in BOOLEAN, sql_param \in BooleanInputs :
          OracleQueryAddParameterBoolean(simulate, sql_param)
    \/ \E simulate \in BOOLEAN, query \in Queries, danger_allowed \in BOOLEAN :
          OracleQuery(simulate, query, danger_allowed)
    \/ \E simulate \in BOOLEAN, query \in Queries, column \in Columns,
          danger_allowed \in BOOLEAN :
          OracleQueryWithStringResult(simulate, query, column, danger_allowed)
    \/ \E simulate \in BOOLEAN, query \in Queries, column \in Columns,
          danger_allowed \in BOOLEAN :
          OracleQueryWithIntegerResult(simulate, query, column, danger_allowed)

Spec == Init /\ [][Next]_vars

(***************************************************************************)
(* The same instructions called the plain way: the caller's simulate flag  *)
(* not set (no handler reads it) and one connect string.                   *)
(***************************************************************************)
PlainNext ==
    \/ \E username \in Usernames, password \in Passwords,
          connect_string \in ThreadConnectStrings, connect_ok \in BOOLEAN :
          OracleConnect(FALSE, username, password, connect_string, connect_ok)
    \/ \E sql_param \in StringInputs :
          OracleQueryAddParameterString(FALSE, sql_param)
    \/ \E sql_param \in IntegerInputs :
          OracleQueryAddParameterInteger(FALSE, sql_param)
    \/ \E sql_param \in BooleanInputs :
          OracleQueryAddParameterBoolean(FALSE, sql_param)
    \/ \E query \in Queries, danger_allowed \in BOOLEAN :
          OracleQuery(FALSE, query, danger_allowed)
    \/ \E query \in Queries, column \in Columns, danger_allowed \in BOOLEAN :
          OracleQueryWithStringResult(FALSE, query, column, danger_allowed)
    \/ \E query \in Queries, column \in Columns, danger_allowed \in BOOLEAN :
          OracleQueryWithIntegerResult(FALSE, query, column, danger_allowed)

PlainSpec == Init /\ [][PlainNext]_vars

(***************************************************************************)
(* The execute instructions called with the guard's queries, danger not    *)
(* allowed, as the first call on a fresh engine: the guard's verdict is    *)
(* the call's result.                                                      *)
(***************************************************************************)
GuardNext ==
    \/ /\ last = NoCall
       /\ \E query \in GuardQueries : OracleQuery(FALSE, query, FALSE)
    \/ /\ last = NoCall
       /\ \E query \in GuardQueries, column \in Columns :
             OracleQueryWithStringResult(FALSE, query, column, FALSE)
    \/ /\ last = NoCall
       /\ \E query \in GuardQueries, column \in Columns :
             OracleQueryWithIntegerResult(FALSE, query, column, FALSE)

GuardSpec == Init /\ [][GuardNext]_vars

(***************************************************************************)
(* The instructions on an engine whose Mutex<State> may become poisoned: a *)
(* thread panicked while it held the lock of that mutex. No handler locks  *)
(* it (they go through get_mut), so the poisoning comes from outside them. *)
(***************************************************************************)
Poison ==
    /\ ~poisoned
    /\ poisoned' = TRUE
    /\ UNCHANGED <<conn, params, evidence, last, added, ran, holder, frame>>

PoisonNext == PlainNext \/ Poison

PoisonSpec == Init /\ [][PoisonNext]_vars

(***************************************************************************)
(* Calls from several threads. ENGINE is a static Mutex<Engine<..>> and a  *)
(* handler is given `&mut Mutex<State>`, a field of that engine: a thread  *)
(* reaches a handler only through ENGINE's lock and holds it until the     *)
(* handler has returned. A handler is taken apart here into its accesses   *)
(* to the state, so that another thread's step could fall between two of   *)
(* them if the lock let it in. pc of a frame: "idle", "lock" (the call is  *)
(* made, the thread waits for the lock), "start", then for oracle-query    *)
(* "conn", "clone", "clear", "query", "push", and "ret".                   *)
(***************************************************************************)
Returned(f, err, stage) == [f EXCEPT !.pc = "ret", !.err = err, !.stage = stage]

\* a thread calls an instruction
Issue(t, op, query, arg) ==
    /\ frame[t].pc = "idle"
    /\ frame' = [frame EXCEPT ![t] = [Idle EXCEPT !.pc = "lock", !.op = op,
                                                  !.query = query, !.arg = arg]]
    /\ UNCHANGED <<conn, params, evidence, last, added, ran, poisoned, holder>>

\* the engine reached without its lock
LockFree_Always(h) == TRUE

\* Mutex::lock returns once no thread holds the mutex
LockFree(h) == h = None

\* ENGINE.lock()
EngineLock(t) ==
    /\ frame[t].pc = "lock"
    /\ LockFree(holder)
    /\ frame[t].op \in {"oracle-query-add-parameter-string",
                        "oracle-query-add-parameter-integer",
                        "oracle-query-add-parameter-boolean"}
          => Len(params) < MaxParams
    /\ frame[t].op = "oracle-query" => Len(evidence) < MaxEvidence
    /\ holder' = Some(t)
    /\ frame' = [frame EXCEPT ![t].pc = "start"]
    /\ UNCHANGED <<conn, params, evidence, last, added, ran, poisoned>>

\* the oracle-connect handler
ConnectStep(t, username, password, connect_string, connect_ok) ==
    /\ frame[t].pc = "start"
    /\ frame[t].op = "oracle-connect"
    /\ IF LockFailed(poisoned)
         THEN /\ frame' = [frame EXCEPT ![t] = Returned(@, "PoisonedState", "lock")]
              /\ UNCHANGED conn
         ELSE LET result == IF connect_ok
                              THEN Some(Connection(username, password, connect_string))
                              ELSE None
              IN  /\ conn' = ConnAfterConnect(conn, result)
                  /\ frame' = [frame EXCEPT ![t] =
                                  [Returned(@, IF result # None THEN "Ok" ELSE "Oracle",
                                               IF result # None THEN "done" ELSE "driver")
                                     EXCEPT !.connect_string = connect_string,
                                            !.sent = TRUE]]
    /\ UNCHANGED <<params, evidence, last, added, ran, poisoned, holder>>

\* the three add-parameter handlers: arg is the SqlValue built from sql_param
AddParameterStep(t) ==
    /\ frame[t].pc = "start"
    /\ frame[t].op \in {"oracle-query-add-parameter-string",
                        "oracle-query-add-parameter-integer",
                        "oracle-query-add-parameter-boolean"}
    /\ IF LockFailed(poisoned)
         THEN /\ frame' = [frame EXCEPT ![t] = Returned(@, "PoisonedState", "lock")]
              /\ UNCHANGED <<params, added>>
         ELSE /\ params' = PushParam(params, frame[t].arg[1])
              /\ added' = Append(added, [kind |-> frame[t].arg[1].kind,
                                         val |-> frame[t].arg[1].val])
              /\ frame' = [frame EXCEPT ![t] = Returned(@, "Ok", "done")]
    /\ UNCHANGED <<conn, evidence, last, ran, poisoned, holder>>

\* oracle-query: get_mut and the guard on the call's own parameters
QueryGuard(t) ==
    /\ frame[t].pc = "start"
    /\ frame[t].op = "oracle-query"
    /\ frame' = [frame EXCEPT ![t] =
                    IF LockFailed(poisoned)
                      THEN Returned(@, "PoisonedState", "lock")
                    ELSE IF GuardRejects(@.query, FALSE)
                      THEN Returned(@, "DangerousQuery", "guard")
                    ELSE [@ EXCEPT !.pc = "conn"]]
    /\ UNCHANGED <<conn, params, evidence, last, added, ran, poisoned, holder>>

\* let conn = state.conn.as_ref().ok_or(EngineError::NotYetConnected)?
QueryConn(t) ==
    /\ frame[t].pc = "conn"
    /\ frame' = [frame EXCEPT ![t] =
                    IF ConnMissing(conn)
                      THEN Returned(@, "NotYetConnected", "conn")
                      ELSE [@ EXCEPT !.pc = "clone"]]
    /\ UNCHANGED <<conn, params, evidence, last, added, ran, poisoned, holder>>

\* let sql_params_vec = state.params.clone()
QueryClone(t) ==
    /\ frame[t].pc = "clone"
    /\ frame' = [frame EXCEPT ![t] = [@ EXCEPT !.pc = "clear",
                                               !.sql_params_vec = params]]
    /\ UNCHANGED <<conn, params, evidence, last, added, ran, poisoned, holder>>

\* state.params.clear()
QueryClear(t) ==
    /\ frame[t].pc = "clear"
    /\ params' = ClearedParams(params)
    /\ added' = <<>>
    /\ frame' = [frame EXCEPT ![t].pc = "query"]
    /\ UNCHANGED <<conn, evidence, last, ran, poisoned, holder>>

\* conn.query(&query, sql_params.as_slice())
QueryDriver(t, query_ok) ==
    /\ frame[t].pc = "query"
    /\ ran' = IF query_ok THEN Append(ran, frame[t].query) ELSE ran
    /\ frame' = [frame EXCEPT ![t] = [@ EXCEPT !.pc = "push", !.sent = TRUE,
                                               !.query_ok = query_ok]]
    /\ UNCHANGED <<conn, params, evidence, last, added, poisoned, holder>>

\* the ? on the driver's result, then evidence.push(..) and Ok(())
QueryPush(t) ==
    /\ frame[t].pc = "push"
    /\ evidence' = EvidenceAfterQuery(evidence, frame[t].query, frame[t].query_ok)
    /\ frame' = [frame EXCEPT ![t] =
                    Returned(@, IF @.query_ok THEN "Ok" ELSE "Oracle",
                                IF @.query_ok THEN "done" ELSE "driver")]
    /\ UNCHANGED <<conn, params, last, added, ran, poisoned, holder>>

\* the handler has returned: the caller has its result and the guard of the
\* lock is dropped
EngineUnlock(t) ==
    /\ frame[t].pc = "ret"
    /\ last' = [Call(frame[t].op, FALSE, frame[t].query, FALSE, frame[t].err,
                     frame[t].stage, frame[t].sent,
                     ToSqlRefs(frame[t].sql_params_vec), None)
                  EXCEPT !.connect_string = frame[t].connect_string]
    /\ holder' = None
    /\ frame' = [frame EXCEPT ![t] = Idle]
    /\ UNCHANGED <<conn, params, evidence, added, ran, poisoned>>

ConcNext ==
    \E t \in Threads :
        \/ Issue(t, "oracle-connect", <<>>, None)
        \/ \E sql_param \in StringInputs :
               Issue(t, "oracle-query-add-parameter-string", <<>>,
                     Some(SqlString(sql_param)))
        \/ \E sql_param \in IntegerInputs :
               Issue(t, "oracle-query-add-parameter-integer", <<>>,
                     Some(SqlInteger(I32AsI64(sql_param))))
        \/ \E query \in Queries : Issue(t, "oracle-query", query, None)
        \/ EngineLock(t)
        \/ \E username \in Usernames, password \in Passwords,
              connect_string \in ThreadConnectStrings, connect_ok \in BOOLEAN :
               ConnectStep(t, username, password, connect_string, connect_ok)
        \/ AddParameterStep(t)
        \/ QueryGuard(t)
        \/ QueryConn(t)
        \/ QueryClone(t)
        \/ QueryClear(t)
        \/ \E query_ok \in BOOLEAN : QueryDriver(t, query_ok)
        \/ QueryPush(t)
        \/ EngineUnlock(t)

ConcSpec == Init /\ [][ConcNext]_vars

(***************************************************************************)
(* Properties.                                                             *)
(***************************************************************************)
ExecOps == {"oracle-query", "oracle-query-with-string-result",
            "oracle-query-with-integer-result"}
ResultOps == {"oracle-query-with-string-result",
              "oracle-query-with-integer-result"}
AddOps == {"oracle-query-add-parameter-string", "oracle-query-add-parameter-integer",
           "oracle-query-add-parameter-boolean"}

\* the call made in this step is rejected by the guard's rule
StepRejected == IsDangerous[last'.query] /\ ~last'.danger_allowed

\* the positional binding a value given to add-parameter is to become
Bound(v) ==
    [ty |-> CASE v.kind = "String" -> "&String"
              [] v.kind = "Integer" -> "&i64"
              [] v.kind = "Boolean" -> "&bool",
     val |-> v.val]

\* the same binding: the same type and, then, the same value
SameBinding(a, b) == a.ty = b.ty /\ a.val = b.val

\* C1: an execute call with a denylisted word in its query and danger_allowed
\* false fails with DangerousQuery, sends nothing to the driver and leaves
\* the queue, the connection handle and the evidence as they were, with or
\* without a connection.
C1_DangerousQueryRejected ==
    [][(last'.op \in ExecOps /\ StepRejected)
         => /\ last'.err = "DangerousQuery"
            /\ ~last'.sent
            /\ params' = params
            /\ conn' = conn
            /\ evidence' = evidence
            /\ ran' = ran]_vars

C1_Witness ==
    /\ last.op \in ExecOps
    /\ last.err = "DangerousQuery"
    /\ conn = None
    /\ params # <<>>

\* C2: an execute call that passes the guard while no connection handle is
\* present fails with NotYetConnected, sends nothing to the driver, appends no
\* evidence and leaves the queue with the same values in the same order.
C2_NotYetConnected ==
    [][(last'.op \in ExecOps /\ ~StepRejected /\ conn = None)
         => /\ last'.err = "NotYetConnected"
            /\ ~last'.sent
            /\ params' = params
            /\ conn' = conn
            /\ evidence' = evidence
            /\ ran' = ran]_vars

C2_Witness ==
    /\ last.op \in ExecOps
    /\ last.err = "NotYetConnected"
    /\ Len(params) >= 2

\* C3: an execute call that passes the guard and the connection check leaves
\* the queue empty whether or not the driver call succeeded, and what it binds
\* are only values added since the queue was last drained; an execute call
\* that fails at the guard or at the connection check leaves the queue as it was.
C3_ConsumedOnAttempt ==
    [][last'.op \in ExecOps
         => IF StepRejected \/ conn = None
              THEN params' = params
              ELSE /\ params' = <<>>
                   /\ \A i \in 1..Len(last'.binds) :
                          \E j \in 1..Len(added) :
                              SameBinding(last'.binds[i], Bound(added[j]))
                   /\ Len(last'.binds) <= Len(added)]_vars

C3_Witness ==
    /\ last.op \in ExecOps
    /\ last.err = "Oracle"
    /\ last.stage = "driver"
    /\ Len(last.binds) >= 1
    /\ params = <<>>

\* C4: an execute call that reaches the driver passes, as positional bindings,
\* exactly the values given to add-parameter since the last drain, each with
\* its type, the i-th add as the i-th binding.
C4_BindingsInAddOrder ==
    [][(last'.op \in ExecOps /\ last'.sent)
         => /\ Len(last'.binds) = Len(added)
            /\ \A i \in 1..Len(added) :
                   SameBinding(last'.binds[i], Bound(added[i]))]_vars

C4_Witness ==
    /\ last.op \in ExecOps
    /\ last.sent
    /\ Len(last.binds) = 3
    /\ SameBinding(last.binds[1], [ty |-> "&String", val |-> "a"])
    /\ SameBinding(last.binds[2], [ty |-> "&i64", val |-> -1])
    /\ SameBinding(last.binds[3], [ty |-> "&bool", val |-> TRUE])

\* C5: the evidence holds one record per query the driver executed
\* successfully, in the order of execution, each with label "Ran Query" and
\* the submitted query as its content.
C5_EvidencePerExecutedQuery ==
    evidence = [i \in 1..Len(ran) |-> [label |-> "Ran Query", content |-> ran[i]]]

C5_Witness ==
    /\ Len(evidence) = 2
    /\ evidence[1].content = DeleteFromT
    /\ evidence[2].content = SelectOne

\* C6: when the driver fails to execute the query (or to retrieve the row), the
\* call returns the driver's error, appends no evidence, writes no output, keeps
\* the connection handle present and leaves the queue drained.
C6_DriverFailure ==
    [][(last'.op \in ExecOps /\ last'.stage = "driver")
         => /\ last'.err = "Oracle"
            /\ evidence' = evidence
            /\ last'.out = None
            /\ conn # None
            /\ conn' = conn
            /\ params' = <<>>]_vars

C6_Witness ==
    /\ last.op = "oracle-query"
    /\ last.stage = "driver"
    /\ last.err = "Oracle"
    /\ Len(last.binds) >= 1
    /\ Len(evidence) >= 1

\* C7: in the with-result instructions, when the row is retrieved and reading
\* the named column fails, the call fails with the driver's error, the evidence
\* record of the query has been appended all the same, and no result is written
\* to the output.
C7_EvidenceBeforeExtraction ==
    [][(last'.op \in ResultOps /\ last'.stage = "get")
         => /\ last'.err = "Oracle"
            /\ evidence' = Append(evidence,
                                  [label |-> "Ran Query", content |-> last'.query])
            /\ last'.out = None]_vars

C7_Witness ==
    /\ last.op = "oracle-query-with-integer-result"
    /\ last.stage = "get"
    /\ evidence # <<>>

\* C8: a connect, add-parameter or execute-query call made with simulate set
\* leaves the connection handle, the queue and the evidence unchanged, calls
\* the driver never and returns no error.
C8_DryRunNoEffect ==
    [][(last'.simulate /\ last'.op \in ({"oracle-connect", "oracle-query"} \cup AddOps))
         => /\ conn' = conn
            /\ params' = params
            /\ evidence' = evidence
            /\ ~last'.sent
            /\ last'.err = "Ok"]_vars

\* C9: a with-result call made with simulate set returns the empty string
\* (string result) or 0 (integer result), with no error and no change to the
\* queue, the connection handle or the evidence.
C9_DryRunZeroValue ==
    [][(last'.simulate /\ last'.op \in ResultOps)
         => /\ last'.err = "Ok"
            /\ last'.out = IF last'.op = "oracle-query-with-string-result"
                             THEN Some("") ELSE Some(0)
            /\ conn' = conn
            /\ params' = params
            /\ evidence' = evidence]_vars

\* C10: a successful connect makes the handle present, and it is the handle of
\* this connect whatever handle was there; a failed connect returns the
\* driver's error and leaves the handle exactly as it was.
C10_ConnectReplacesOnSuccess ==
    [][last'.op = "oracle-connect"
         => IF last'.err = "Ok"
              THEN /\ Len(conn') = 1
                   /\ conn'[1].connect_string = last'.connect_string
              ELSE /\ last'.err = "Oracle"
                   /\ conn' = conn]_vars

C10_Witness ==
    /\ last.op = "oracle-connect"
    /\ last.err = "Oracle"
    /\ conn # None

\* the guard's verdict on the query of the latest call
Verdict == last.err = "DangerousQuery"

\* C11: the guard reports dangerous iff some token of the query, the tokens
\* being the pieces between single spaces, trimmed and lower-cased, is
\* "truncate", "delete" or "drop"; "DROP table t" is dangerous, "SELECT * FROM t",
\* "airdrop now" and "drop;" are not.
C11_GuardMatchesReference ==
    last.op \in ExecOps
      => \A c \in TokenCases \cup ExampleCases :
             c.query = last.query => (Verdict <=> c.danger)

C11_Witness ==
    /\ last.op \in ExecOps
    /\ last.query = DropTableT
    /\ Verdict

\* C12, as claimed: the guard reports dangerous iff some whitespace-delimited
\* word of the query is denylisted, whichever whitespace delimits it.
C12_WhitespaceDelimited ==
    last.op \in ExecOps
      => \A c \in WordCases : c.query = last.query => (Verdict <=> c.anyWord)

\* C12, amended: the guard reports dangerous iff some token delimited by single
\* spaces is denylisted; a denylisted word joined to its neighbour by a tab or a
\* newline is one token with that neighbour and is not reported.
C12_SpaceDelimitedOnly ==
    last.op \in ExecOps
      => \A c \in WordCases : c.query = last.query => (Verdict <=> c.spaceToken)

C12_Witness ==
    /\ last.op \in ExecOps
    /\ last.query = <<"s","e","l","e","c","t","\t","D","R","O","P">>
    /\ ~Verdict

\* C13, as claimed: for a with-result instruction that has been called, the kind
\* declared for each parameter and for the output is the kind the handler reads
\* or writes.
C13_DeclaredKindsAreHandlerKinds ==
    last.op \in ResultOps
      => \A name \in {"query", "column", "dangerous", "result"} :
             DeclaredKinds[last.op][name] = HandlerKinds[last.op][name]

\* C14: the evidence before a step is a prefix of the evidence after it.
C14_EvidenceAppendOnly ==
    [][/\ Len(evidence) <= Len(evidence')
       /\ \A i \in 1..Len(evidence) : evidence'[i] = evidence[i]]_vars

C14_Witness ==
    /\ Len(evidence) >= 1
    /\ last.op = "oracle-query"
    /\ last.err = "Oracle"

\* C15: a connection handle that is present stays present over every step, and
\* no execute call made while it is present fails with NotYetConnected.
C15_ConnectionStaysPresent ==
    [][conn # None
         => /\ conn' # None
            /\ (last'.op \in ExecOps => last'.err # "NotYetConnected")]_vars

C15_Witness ==
    /\ conn # None
    /\ last.op = "oracle-query-with-string-result"
    /\ last.stage = "get"
    /\ last.err = "Oracle"

\* the same queued value: the same kind and, then, the same value
SameValue(a, b) == a.kind = b.kind /\ a.val = b.val

\* the outcomes of an execute call A from the current state, by decision
RejectsHere(A) ==
    ENABLED (A /\ last'.err = "DangerousQuery" /\ ~last'.sent
               /\ Len(params') = Len(params) /\ conn' = conn)
NotConnectedHere(A) ==
    ENABLED (A /\ last'.err = "NotYetConnected" /\ ~last'.sent
               /\ Len(params') = Len(params)
               /\ (\A i \in 1..Len(params) : SameValue(params'[i], params[i]))
               /\ conn' = conn)
ProceedsHere(A) ==
    ENABLED (A /\ last'.sent /\ last'.err \in {"Ok", "Oracle"}
               /\ params' = <<>> /\ conn' = conn
               /\ Len(last'.binds) = Len(params)
               /\ \A i \in 1..Len(params) :
                      SameBinding(last'.binds[i], Bound(params[i])))
OtherwiseHere(A) ==
    ENABLED (A /\ ~(\/ last'.err = "DangerousQuery" /\ ~last'.sent
                       /\ Len(params') = Len(params) /\ conn' = conn
                    \/ last'.err = "NotYetConnected" /\ ~last'.sent
                       /\ Len(params') = Len(params) /\ conn' = conn
                    \/ last'.sent /\ last'.err \in {"Ok", "Oracle"}
                       /\ params' = <<>> /\ conn' = conn
                       /\ Len(last'.binds) = Len(params)))

\* C16: from every state and for every query and danger_allowed flag, the three
\* execute instructions take the same decision (DangerousQuery, NotYetConnected
\* or proceed), leave the same queue and connection handle, and pass the same
\* ordered bindings to the driver.
C16_ExecuteHandlersAgree ==
    \A query \in Queries, danger_allowed \in BOOLEAN, column \in Columns :
        LET Q == OracleQuery(FALSE, query, danger_allowed)
            S == OracleQueryWithStringResult(FALSE, query, column, danger_allowed)
            I == OracleQueryWithIntegerResult(FALSE, query, column, danger_allowed)
        IN  /\ RejectsHere(Q) = RejectsHere(S)
            /\ RejectsHere(Q) = RejectsHere(I)
            /\ NotConnectedHere(Q) = NotConnectedHere(S)
            /\ NotConnectedHere(Q) = NotConnectedHere(I)
            /\ ProceedsHere(Q) = ProceedsHere(S)
            /\ ProceedsHere(Q) = ProceedsHere(I)
            /\ ~OtherwiseHere(Q) /\ ~OtherwiseHere(S) /\ ~OtherwiseHere(I)

C16_Witness ==
    /\ conn # None
    /\ Len(params) >= 2
    /\ Len(evidence) < MaxEvidence
    /\ ProceedsHere(OracleQueryWithIntegerResult(FALSE, SelectOne, "name", FALSE))
    /\ ProceedsHere(OracleQuery(FALSE, SelectOne, FALSE))

\* C19: an execute call with danger_allowed true never fails with DangerousQuery,
\* whatever its query: with no connection it fails with NotYetConnected and
\* changes nothing, otherwise it drains the queue, calls the driver and appends
\* the evidence record unless the driver failed.
C19_DangerAllowedSkipsGuard ==
    [][(last'.op \in ExecOps /\ last'.danger_allowed)
         => /\ last'.err # "DangerousQuery"
            /\ IF conn = None
                 THEN /\ last'.err = "NotYetConnected"
                      /\ ~last'.sent
                      /\ params' = params
                      /\ evidence' = evidence
                 ELSE /\ last'.sent
                      /\ params' = <<>>
                      /\ evidence' =
                           IF last'.stage = "driver" THEN evidence
                           ELSE Append(evidence, [label |-> "Ran Query",
                                                  content |-> last'.query])]_vars

C19_Witness ==
    /\ last.op \in ExecOps
    /\ last.danger_allowed
    /\ last.query = DeleteFromT
    /\ last.err = "Ok"
    /\ evidence # <<>>

\* C20: connect, whether it succeeds or fails, leaves the queue and the evidence
\* as they were; an add-parameter call returns Ok, leaves the connection handle
\* and the evidence as they were, keeps the queue it found as a prefix and makes
\* it one longer.
C20_FramesOfConnectAndAdd ==
    [][/\ last'.op = "oracle-connect"
            => /\ Len(params') = Len(params)
               /\ \A i \in 1..Len(params) : SameValue(params'[i], params[i])
               /\ Len(added') = Len(added)
               /\ evidence' = evidence
       /\ last'.op \in AddOps
            => /\ last'.err = "Ok"
               /\ conn' = conn
               /\ evidence' = evidence
               /\ Len(params') = Len(params) + 1
               /\ \A i \in 1..Len(params) : SameValue(params'[i], params[i])]_vars

C20_Witness ==
    /\ last.op = "oracle-connect"
    /\ last.err = "Ok"
    /\ Len(params) >= 2

AllOps == {"oracle-connect"} \cup AddOps \cup ExecOps

\* C17: on a poisoned state every instruction fails with PoisonedState, which is
\* none of the other results, has read none of its inputs and leaves the queue,
\* the connection handle and the evidence as they were.
C17_PoisonedStateFailsEveryCall ==
    [][(poisoned /\ last'.op \in AllOps)
         => /\ last'.err = "PoisonedState"
            /\ last'.err \notin {"Ok", "DangerousQuery", "NotYetConnected", "Oracle"}
            /\ last'.query = <<>>
            /\ ~last'.sent
            /\ Len(params') = Len(params)
            /\ \A i \in 1..Len(params) : SameValue(params'[i], params[i])
            /\ conn' = conn
            /\ evidence' = evidence]_vars

C17_Witness ==
    /\ poisoned
    /\ last.op = "oracle-query-with-string-result"
    /\ last.err = "PoisonedState"
    /\ conn # None
    /\ Len(params) >= 1

\* a thread that is inside a handler
Running(f) == f.pc \notin {"idle", "lock"}

SameQueue(p, q) ==
    /\ Len(p) = Len(q)
    /\ \A i \in 1..Len(p) : SameValue(p[i], q[i])

\* C18: with calls made from several threads, at most one thread is inside a
\* handler; while it is, a step of another thread changes nothing of the state;
\* an execute clears exactly the queue it copied, so that each queued parameter
\* goes to one execution; and the evidence record an execute appends is the one
\* of its own query, at that query's position among the queries run.
C18_CallsAreMutuallyExclusive ==
    [][/\ \A t, u \in Threads :
              t # u => ~(Running(frame'[t]) /\ Running(frame'[u]))
       /\ \A t, u \in Threads :
              (t # u /\ Running(frame[t]) /\ frame'[u].pc # frame[u].pc)
                 => /\ conn' = conn
                    /\ SameQueue(params', params)
                    /\ evidence' = evidence
                    /\ ran' = ran
       /\ \A t \in Threads :
              (frame[t].pc = "clear" /\ frame'[t].pc = "query")
                 => /\ SameQueue(params, frame[t].sql_params_vec)
                    /\ params' = <<>>
       /\ \A t \in Threads :
              (frame[t].pc = "push" /\ frame'[t].pc = "ret" /\ frame[t].query_ok)
                 => /\ Len(evidence') = Len(ran')
                    /\ evidence'[Len(evidence')] = EvidenceRecord(frame[t].query)
                    /\ ran'[Len(ran')] = frame[t].query]_vars

C18_Witness ==
    /\ frame["t1"].pc = "clear"
    /\ Len(frame["t1"].sql_params_vec) >= 2
    /\ Len(evidence) >= 1
    /\ frame["t2"].pc = "lock"
    /\ frame["t2"].op = "oracle-query-add-parameter-integer"

==========================================================================
